---- MODULE Spec2Model ----
(***************************************************************************)
(* Model of the Emoji Tic Tac Toe view (tic_tac_toe_frontend/App.tsx).     *)
(*                                                                         *)
(* The view owns seven state fields and talks to a remote game service     *)
(* with four HTTP calls.  The service is not part of the repository: it is *)
(* modelled as an adversary that answers every outstanding request with    *)
(* any outcome (rejected fetch, non-2xx status, unparseable body, or a     *)
(* 2xx body carrying any payload of the bounded payload universe).         *)
(*                                                                         *)
(* JavaScript values are encoded as pairs <<tag, text>> so that values of  *)
(* different JavaScript types can be compared: the tag is the type and the *)
(* text is the literal.  Arrays are <<"array", sequence of values>>.       *)
(*                                                                         *)
(* Handlers read the state of the latest render: React re-renders after    *)
(* each batch of state updates, before the next event is dispatched.       *)
(* onCellPress and onReset can be invoked whenever the view is mounted:    *)
(* the `disabled` prop of the Pressables (lines 226, 249) filters user     *)
(* gestures only, the guards that count are those of the handlers.         *)
(* The state variables hold the values last passed to the setters.         *)
(***************************************************************************)
EXTENDS Integers, Sequences, FiniteSets, Bags, TLC

VARIABLES
    gameId,         \* string | null                       (App.tsx:53)
    board,          \* Array<'X' | 'O' | null>             (App.tsx:54)
    nextPlayer,     \* 'X' | 'O'                           (App.tsx:55)
    winner,         \* 'X' | 'O' | null                    (App.tsx:56)
    isDraw,         \* boolean                             (App.tsx:57)
    isLoading,      \* boolean                             (App.tsx:58)
    statusMessage,  \* string                              (App.tsx:59)
    isMounted,      \* closure variable of the mount effect (App.tsx:108)
    initPc,         \* position of the async function init  (App.tsx:109-137):
                    \*   "start", awaiting "health" or "create", then returned:
                    \*   "done" (payload adopted), "failed" (error recorded),
                    \*   "abandoned" (returned because the effect was cleaned up)
    inflight,       \* bag of move/reset requests issued and not yet answered
    lastEvent       \* history: the handler or continuation that ran last, with its input

gameVars  == <<board, nextPlayer, winner, isDraw>>
stateVars == <<gameId, board, nextPlayer, winner, isDraw, isLoading, statusMessage>>
vars      == <<gameId, board, nextPlayer, winner, isDraw, isLoading, statusMessage,
               isMounted, initPc, inflight, lastEvent>>

---------------------------------------------------------------------------
(* Bounds *)

\* Largest number of move/reset requests outstanding at the same time.
MaxInFlight == 2

---------------------------------------------------------------------------
(* JavaScript values *)

Undefined == <<"undefined", "">>
JSNull    == <<"null", "">>
Str(s)    == <<"string", s>>
Num(s)    == <<"number", s>>
Bool(s)   == <<"boolean", s>>
Arr(q)    == <<"array", q>>
Obj(r)    == <<"object", r>>

\* An Error instance with the given message (thrown by fetch, json() or the code).
ErrorObj(msg) == <<"error", msg>>

X == Str("X")
O == Str("O")

\* Number of cells of the grid.
BoardSize == 9

Cells == 0 .. (BoardSize - 1)

\* Array(9).fill(null)
EmptyBoard == Arr([i \in 1 .. BoardSize |-> JSNull])

\* JavaScript truthiness (ToBoolean), as used by `if (v)` and `!v`.
Truthy(v) ==
    v \notin {Undefined, JSNull, Str(""), Num("0"), Bool("false")}

\* Boolean(v)
JSBoolean(v) == IF Truthy(v) THEN Bool("true") ELSE Bool("false")

\* a.length and a[i] for an array a (i counted from 0).
Length(a) == Len(a[2])
At(a, i)  == a[2][i + 1]

\* String(v) for a string or a number: the text of the literal.
JSString(v) == v[2]

\* Array.isArray(v)
IsArray(v) == v[1] = "array"

\* a ?? b
Coalesce(a, b) == IF a \in {Undefined, JSNull} THEN b ELSE a

\* payload?.field : undefined when the payload is null/undefined or is not
\* an object carrying the field.
Field(payload, f) ==
    IF payload[1] = "object" THEN payload[2][f] ELSE Undefined

\* s.endsWith(" ")
EndsWithSpace(s) == Len(s) > 0 /\ SubSeq(s, Len(s), Len(s)) = " "

\* s.trim() for the strings built here, which never start with white space.
RECURSIVE Trim(_)
Trim(s) == IF EndsWithSpace(s) THEN Trim(SubSeq(s, 1, Len(s) - 1)) ELSE s

\* s.startsWith(p)
StartsWith(s, p) == Len(s) >= Len(p) /\ SubSeq(s, 1, Len(p)) = p


---------------------------------------------------------------------------
(* What the game service and the network can answer *)

\* Values of the field `id` that updateFromPayload accepts / skips.
GoodIds == {Num("7")}
BadIds  == {Undefined, Str("")}

\* A board with X in the centre cell (index 4).
CentreBoard == Arr([i \in 1 .. BoardSize |-> IF i = 5 THEN X ELSE JSNull])

\* A 9-element array whose first element is not a mark.
JunkBoard == Arr([i \in 1 .. BoardSize |-> IF i = 1 THEN Str("Z") ELSE JSNull])

\* Values of the field `board`: boards of the data model, and the others:
\* absent, not an array (a string of 9 characters), arrays of 8 and 10
\* elements, a 9-element array with an element that is not a cell value.
GoodBoards == {EmptyBoard, CentreBoard}
BadBoards ==
    { Undefined,
      Str("XOXOXOXOX"),
      Arr([i \in 1 .. (BoardSize - 1) |-> JSNull]),
      Arr([i \in 1 .. (BoardSize + 1) |-> JSNull]),
      JunkBoard }

GoodNextPlayers == {X, O}
BadNextPlayers  == {Undefined, Str("Z")}

GoodWinners == {JSNull, O}
BadWinners  == {Undefined, Str("Z")}

GoodIsDraws == {Bool("true"), Bool("false")}
BadIsDraws  == {Undefined, Num("1")}

\* The bodies that follow the documented shape of GameStatePayload.
WellFormed ==
    [id : GoodIds, board : GoodBoards, nextPlayer : GoodNextPlayers,
     winner : GoodWinners, isDraw : GoodIsDraws]

\* The parsed JSON bodies: the well-formed objects, each of them with one
\* field replaced by a value outside the documented shape, the object with
\* no field at all, and the JSON value null.
Payloads ==
    {Obj(r) : r \in WellFormed}
    \cup {Obj([r EXCEPT !.id = v]) : r \in WellFormed, v \in BadIds}
    \cup {Obj([r EXCEPT !.board = v]) : r \in WellFormed, v \in BadBoards}
    \cup {Obj([r EXCEPT !.nextPlayer = v]) : r \in WellFormed, v \in BadNextPlayers}
    \cup {Obj([r EXCEPT !.winner = v]) : r \in WellFormed, v \in BadWinners}
    \cup {Obj([r EXCEPT !.isDraw = v]) : r \in WellFormed, v \in BadIsDraws}
    \cup {Obj([id |-> Undefined, board |-> Undefined, nextPlayer |-> Undefined,
               winner |-> Undefined, isDraw |-> Undefined])}
    \cup {JSNull}

\* Values a rejected promise (fetch, json()) may carry: an Error, or a
\* value that is not an object.
Thrown == {ErrorObj("Network request failed"), Str("aborted")}

\* The value json() throws on a body that is not JSON.
ParseError == ErrorObj("JSON Parse error")

\* Non-2xx statuses, and the body text read by resp.text() ("" also stands
\* for a rejected text(), which the code maps to '').
HttpStatuses == {"500"}
BodyTexts    == {"", "nope"}

\* Outcomes of one HTTP call.
Rejected(e)        == [kind |-> "rejected", e |-> e]
NotOk(status, txt) == [kind |-> "notOk", status |-> status, text |-> txt]
BadBody            == [kind |-> "badBody"]
Ok(payload)        == [kind |-> "ok", payload |-> payload]

\* Outcomes of the health check: its body is never read.
HealthOutcomes ==
    {Rejected(e) : e \in Thrown}
    \cup {NotOk(s, "") : s \in HttpStatuses}
    \cup {[kind |-> "ok"]}

Failures ==
    {Rejected(e) : e \in Thrown}
    \cup {NotOk(s, t) : s \in HttpStatuses, t \in BodyTexts}
    \cup {BadBody}

---------------------------------------------------------------------------
(* Requests *)

\* Only the endpoint of an outstanding request is kept: the service is free
\* to answer anything, whatever the game id of the URL and the index of the body.
MoveRequest(id, index) == "move"
ResetRequest(id)       == "reset"

InFlightCount == BagCardinality(inflight)

Issue(req)    == inflight' = inflight (+) SetToBag({req})
Complete(req) == inflight' = inflight (-) SetToBag({req})

---------------------------------------------------------------------------
(* The view *)

Init ==
    /\ gameId = JSNull
    /\ board = EmptyBoard
    /\ nextPlayer = X
    /\ winner = JSNull
    /\ isDraw = Bool("false")
    /\ isLoading = TRUE
    /\ statusMessage = "Initializing..."
    /\ isMounted = TRUE
    /\ initPc = "start"
    /\ inflight = EmptyBag
    /\ lastEvent = [op |-> "render"]

\* The three symbols of the grid, written as their code points (the module
\* is ASCII): cross mark, heavy large circle, white large square.
CrossMark   == "U+274C"
CircleMark  == "U+2B55 U+FE0F"
WhiteSquare == "U+2B1C U+FE0F"

\* toEmoji with the two marks exchanged.
toEmoji_MarksExchanged(v) ==
    IF v = X THEN CircleMark
    ELSE IF v = O THEN CrossMark
    ELSE WhiteSquare

\* toEmoji
toEmoji(v) ==
    IF v = X THEN CrossMark
    ELSE IF v = O THEN CircleMark
    ELSE WhiteSquare

\* computedStatus
computedStatus ==
    IF isLoading THEN "Loading..."
    ELSE IF Truthy(winner) THEN "Winner: " \o (IF winner = X THEN CrossMark ELSE CircleMark)
    ELSE IF Truthy(isDraw) THEN "Draw!"
    ELSE "Turn: " \o (IF nextPlayer = X THEN CrossMark ELSE CircleMark)

\* The grid as rendered: board.map(cell => toEmoji(cell)), one text per cell.
RenderedGrid == [i \in 1 .. Length(board) |-> toEmoji(board[2][i])]

\* The status line as rendered.
RenderedStatus == computedStatus

\* canPlay
canPlay == ~isLoading /\ ~Truthy(winner) /\ ~Truthy(isDraw)

\* updateFromPayload, one definition per assignment
\* AdoptId without the test of line 94: any id is stored.
AdoptId_NoTruthyTest(payload) ==
    gameId' = Str(JSString(Field(payload, "id")))

\* AdoptId that clears gameId when the response carries no usable id.
AdoptId_ClearsWhenMissing(payload) ==
    gameId' = IF Truthy(Field(payload, "id"))
              THEN Str(JSString(Field(payload, "id")))
              ELSE JSNull

AdoptId(payload) ==
    gameId' = IF Truthy(Field(payload, "id"))
              THEN Str(JSString(Field(payload, "id")))
              ELSE gameId

\* AdoptBoard without the length test of line 95.
AdoptBoard_NoLengthTest(payload) ==
    board' = IF IsArray(Field(payload, "board"))
             THEN Field(payload, "board")
             ELSE board

AdoptBoard(payload) ==
    board' = IF /\ IsArray(Field(payload, "board"))
                /\ Length(Field(payload, "board")) = BoardSize
             THEN Field(payload, "board")
             ELSE board

\* AdoptNextPlayer that falls back to 'X' instead of skipping.
AdoptNextPlayer_DefaultsToX(payload) ==
    nextPlayer' = IF Field(payload, "nextPlayer") = X \/ Field(payload, "nextPlayer") = O
                  THEN Field(payload, "nextPlayer")
                  ELSE X

AdoptNextPlayer(payload) ==
    nextPlayer' = IF Field(payload, "nextPlayer") = X \/ Field(payload, "nextPlayer") = O
                  THEN Field(payload, "nextPlayer")
                  ELSE nextPlayer

\* AdoptWinner that assigns only a truthy winner, so never clears one.
AdoptWinner_OnlyWhenSet(payload) ==
    winner' = IF Truthy(Field(payload, "winner"))
              THEN Field(payload, "winner")
              ELSE winner

AdoptWinner(payload) ==
    winner' = Coalesce(Field(payload, "winner"), JSNull)

AdoptIsDraw(payload) ==
    isDraw' = JSBoolean(Field(payload, "isDraw"))

updateFromPayload(payload) ==
    /\ AdoptId(payload)
    /\ AdoptBoard(payload)
    /\ AdoptNextPlayer(payload)
    /\ AdoptWinner(payload)
    /\ AdoptIsDraw(payload)

\* The message shown for a caught value e: its message if it is an object
\* with one, the handler's fallback otherwise.
CaughtMessage(e, fallback) ==
    IF e[1] = "error" THEN e[2] ELSE fallback

\* The value that reaches the catch clause for a failed outcome; `what` is
\* the text of the handler's own Error for a non-2xx status.
Caught(outcome, what) ==
    IF outcome.kind = "rejected" THEN outcome.e
    ELSE IF outcome.kind = "notOk" THEN ErrorObj(what)
    ELSE ParseError

---------------------------------------------------------------------------
(* Initialize: the mount effect and the async function init *)

\* The effect runs init up to its first await: the health request is sent.
Mount ==
    /\ initPc = "start"
    /\ isMounted
    /\ isLoading' = TRUE
    /\ statusMessage' = "Pinging server..."
    /\ initPc' = "health"
    /\ lastEvent' = [op |-> "init"]
    /\ UNCHANGED <<gameId, board, nextPlayer, winner, isDraw, isMounted, inflight>>

\* catch and finally of init for the caught value e.
InitCatch(e) ==
    /\ IF isMounted
       THEN /\ statusMessage' = "Error: " \o CaughtMessage(e, "Unable to connect to backend")
            /\ isLoading' = FALSE
            /\ initPc' = "failed"
       ELSE /\ UNCHANGED <<statusMessage, isLoading>>
            /\ initPc' = "abandoned"
    /\ UNCHANGED <<gameId, board, nextPlayer, winner, isDraw>>

\* HealthResponse without the test of healthResp.ok (line 114).
HealthResponse_IgnoresStatus(outcome) ==
    /\ initPc = "health"
    /\ lastEvent' = [op |-> "healthResponse", outcome |-> outcome]
    /\ IF outcome.kind \in {"ok", "notOk"}
       THEN /\ statusMessage' = "Creating game..."
            /\ initPc' = "create"
            /\ UNCHANGED <<gameId, board, nextPlayer, winner, isDraw, isLoading>>
       ELSE InitCatch(Caught(outcome, ""))
    /\ UNCHANGED <<isMounted, inflight>>

\* The health request completes: on 2xx the create-game request is sent.
HealthResponse(outcome) ==
    /\ initPc = "health"
    /\ lastEvent' = [op |-> "healthResponse", outcome |-> outcome]
    /\ IF outcome.kind = "ok"
       THEN /\ statusMessage' = "Creating game..."
            /\ initPc' = "create"
            /\ UNCHANGED <<gameId, board, nextPlayer, winner, isDraw, isLoading>>
       ELSE InitCatch(Caught(outcome, "Health check failed: " \o outcome.status))
    /\ UNCHANGED <<isMounted, inflight>>

\* The create-game request completes and its body is read.
CreateResponse(outcome) ==
    /\ initPc = "create"
    /\ lastEvent' = [op |-> "createResponse", outcome |-> outcome]
    /\ IF outcome.kind = "ok"
       THEN IF isMounted
            THEN /\ updateFromPayload(outcome.payload)
                 /\ statusMessage' = "Game ready!"
                 /\ isLoading' = FALSE
                 /\ initPc' = "done"
            ELSE /\ UNCHANGED stateVars
                 /\ initPc' = "abandoned"
       ELSE InitCatch(Caught(outcome, "Failed to create game: " \o outcome.status))
    /\ UNCHANGED <<isMounted, inflight>>

\* Cleanup of the mount effect.
Unmount ==
    /\ isMounted
    /\ isMounted' = FALSE
    /\ lastEvent' = [op |-> "unmount"]
    /\ UNCHANGED <<stateVars, initPc, inflight>>

---------------------------------------------------------------------------
(* Submit move *)

\* onCellPress that marks the tapped cell before the service answers.
onCellPress_Optimistic(index) ==
    /\ isMounted
    /\ lastEvent' = [op |-> "onCellPress", index |-> index]
    /\ IF ~canPlay \/ ~Truthy(gameId) \/ At(board, index) # JSNull
       THEN UNCHANGED <<stateVars, inflight>>
       ELSE /\ InFlightCount < MaxInFlight
            /\ isLoading' = TRUE
            /\ statusMessage' = "Submitting move..."
            /\ Issue(MoveRequest(JSString(gameId), index))
            /\ board' = Arr([board[2] EXCEPT ![index + 1] = nextPlayer])
            /\ UNCHANGED <<gameId, nextPlayer, winner, isDraw>>
    /\ UNCHANGED <<isMounted, initPc>>

\* onCellPress without the test of line 149 (a game exists).
onCellPress_NoGameIdTest(index) ==
    /\ isMounted
    /\ lastEvent' = [op |-> "onCellPress", index |-> index]
    /\ IF ~canPlay \/ At(board, index) # JSNull
       THEN UNCHANGED <<stateVars, inflight>>
       ELSE /\ InFlightCount < MaxInFlight
            /\ isLoading' = TRUE
            /\ statusMessage' = "Submitting move..."
            /\ Issue(MoveRequest(JSString(gameId), index))
            /\ UNCHANGED <<gameId, board, nextPlayer, winner, isDraw>>
    /\ UNCHANGED <<isMounted, initPc>>

\* onCellPress without the test of line 150 (the cell is empty).
onCellPress_NoOccupiedTest(index) ==
    /\ isMounted
    /\ lastEvent' = [op |-> "onCellPress", index |-> index]
    /\ IF ~canPlay \/ ~Truthy(gameId)
       THEN UNCHANGED <<stateVars, inflight>>
       ELSE /\ InFlightCount < MaxInFlight
            /\ isLoading' = TRUE
            /\ statusMessage' = "Submitting move..."
            /\ Issue(MoveRequest(JSString(gameId), index))
            /\ UNCHANGED <<gameId, board, nextPlayer, winner, isDraw>>
    /\ UNCHANGED <<isMounted, initPc>>

\* The handler up to its first await: the guards, then the move request.
onCellPress(index) ==
    /\ isMounted
    /\ lastEvent' = [op |-> "onCellPress", index |-> index]
    /\ IF ~canPlay \/ ~Truthy(gameId) \/ At(board, index) # JSNull
       THEN UNCHANGED <<stateVars, inflight>>
       ELSE /\ InFlightCount < MaxInFlight
            /\ isLoading' = TRUE
            /\ statusMessage' = "Submitting move..."
            /\ Issue(MoveRequest(JSString(gameId), index))
            /\ UNCHANGED <<gameId, board, nextPlayer, winner, isDraw>>
    /\ UNCHANGED <<isMounted, initPc>>

\* MoveResponse whose catch clause shows the bare message.
MoveResponse_BareMessage(req, outcome) ==
    /\ BagIn(req, inflight)
    /\ req = "move"
    /\ Complete(req)
    /\ lastEvent' = [op |-> "moveResponse", outcome |-> outcome]
    /\ IF outcome.kind = "ok"
       THEN /\ updateFromPayload(outcome.payload)
            /\ statusMessage' = "Move accepted."
       ELSE /\ statusMessage' =
                 CaughtMessage(
                     Caught(outcome, Trim("Move failed: " \o outcome.status \o " " \o outcome.text)),
                     "Move failed")
            /\ UNCHANGED <<gameId, board, nextPlayer, winner, isDraw>>
    /\ isLoading' = FALSE
    /\ UNCHANGED <<isMounted, initPc>>

\* The move request req completes: the rest of the handler.
MoveResponse(req, outcome) ==
    /\ BagIn(req, inflight)
    /\ req = "move"
    /\ Complete(req)
    /\ lastEvent' = [op |-> "moveResponse", outcome |-> outcome]
    /\ IF outcome.kind = "ok"
       THEN /\ updateFromPayload(outcome.payload)
            /\ statusMessage' = "Move accepted."
       ELSE /\ statusMessage' =
                 "Error: " \o CaughtMessage(
                     Caught(outcome, Trim("Move failed: " \o outcome.status \o " " \o outcome.text)),
                     "Move failed")
            /\ UNCHANGED <<gameId, board, nextPlayer, winner, isDraw>>
    /\ isLoading' = FALSE
    /\ UNCHANGED <<isMounted, initPc>>

---------------------------------------------------------------------------
(* Reset *)

\* onReset that also returns while a request is loading.
onReset_Serialised ==
    /\ isMounted
    /\ lastEvent' = [op |-> "onReset"]
    /\ IF ~Truthy(gameId) \/ isLoading
       THEN UNCHANGED <<stateVars, inflight>>
       ELSE /\ InFlightCount < MaxInFlight
            /\ isLoading' = TRUE
            /\ statusMessage' = "Resetting game..."
            /\ Issue(ResetRequest(JSString(gameId)))
            /\ UNCHANGED <<gameId, board, nextPlayer, winner, isDraw>>
    /\ UNCHANGED <<isMounted, initPc>>

\* onReset without the guard of line 178.
onReset_NoGuard ==
    /\ isMounted
    /\ lastEvent' = [op |-> "onReset"]
    /\ InFlightCount < MaxInFlight
    /\ isLoading' = TRUE
    /\ statusMessage' = "Resetting game..."
    /\ Issue(ResetRequest(JSString(gameId)))
    /\ UNCHANGED <<gameId, board, nextPlayer, winner, isDraw>>
    /\ UNCHANGED <<isMounted, initPc>>

\* The handler up to its first await: the guard, then the reset request.
onReset ==
    /\ isMounted
    /\ lastEvent' = [op |-> "onReset"]
    /\ IF ~Truthy(gameId)
       THEN UNCHANGED <<stateVars, inflight>>
       ELSE /\ InFlightCount < MaxInFlight
            /\ isLoading' = TRUE
            /\ statusMessage' = "Resetting game..."
            /\ Issue(ResetRequest(JSString(gameId)))
            /\ UNCHANGED <<gameId, board, nextPlayer, winner, isDraw>>
    /\ UNCHANGED <<isMounted, initPc>>

\* ResetResponse that clears isLoading on success only (no finally clause).
ResetResponse_NoFinally(req, outcome) ==
    /\ BagIn(req, inflight)
    /\ req = "reset"
    /\ Complete(req)
    /\ lastEvent' = [op |-> "resetResponse", outcome |-> outcome]
    /\ IF outcome.kind = "ok"
       THEN /\ updateFromPayload(outcome.payload)
            /\ statusMessage' = "Game reset."
            /\ isLoading' = FALSE
       ELSE /\ statusMessage' =
                 "Error: " \o CaughtMessage(
                     Caught(outcome, Trim("Reset failed: " \o outcome.status \o " " \o outcome.text)),
                     "Reset failed")
            /\ UNCHANGED <<gameId, board, nextPlayer, winner, isDraw, isLoading>>
    /\ UNCHANGED <<isMounted, initPc>>

\* The reset request req completes: the rest of the handler.
ResetResponse(req, outcome) ==
    /\ BagIn(req, inflight)
    /\ req = "reset"
    /\ Complete(req)
    /\ lastEvent' = [op |-> "resetResponse", outcome |-> outcome]
    /\ IF outcome.kind = "ok"
       THEN /\ updateFromPayload(outcome.payload)
            /\ statusMessage' = "Game reset."
       ELSE /\ statusMessage' =
                 "Error: " \o CaughtMessage(
                     Caught(outcome, Trim("Reset failed: " \o outcome.status \o " " \o outcome.text)),
                     "Reset failed")
            /\ UNCHANGED <<gameId, board, nextPlayer, winner, isDraw>>
    /\ isLoading' = FALSE
    /\ UNCHANGED <<isMounted, initPc>>

---------------------------------------------------------------------------
(* Specification *)

Outcomes == Failures \cup {Ok(p) : p \in Payloads}

InFlightRequests == BagToSet(inflight)

Next ==
    \/ Mount
    \/ \E outcome \in HealthOutcomes : HealthResponse(outcome)
    \/ \E outcome \in Outcomes : CreateResponse(outcome)
    \/ Unmount
    \/ \E index \in Cells : onCellPress(index)
    \/ \E req \in InFlightRequests, outcome \in Outcomes : MoveResponse(req, outcome)
    \/ onReset
    \/ \E req \in InFlightRequests, outcome \in Outcomes : ResetResponse(req, outcome)

Spec == Init /\ [][Next]_vars

\* The answers drawn when the view is followed to the end of its requests:
\* every failure, every body of the documented shape, and the body null.
LiveOutcomes == Failures \cup {Ok(Obj(r)) : r \in WellFormed} \cup {Ok(JSNull)}

\* The view while it stays mounted: every step but the cleanup of the effect.
NextMounted ==
    \/ Mount
    \/ \E outcome \in HealthOutcomes : HealthResponse(outcome)
    \/ \E outcome \in LiveOutcomes : CreateResponse(outcome)
    \/ \E index \in Cells : onCellPress(index)
    \/ \E req \in InFlightRequests, outcome \in LiveOutcomes : MoveResponse(req, outcome)
    \/ onReset
    \/ \E req \in InFlightRequests, outcome \in LiveOutcomes : ResetResponse(req, outcome)

\* Every request that was sent is answered, and the continuation of the
\* handler that awaits the answer then runs: the effect runs after the
\* first render, and the event loop runs every settled promise's continuation.
Answered ==
    /\ WF_vars(Mount)
    /\ WF_vars(\E outcome \in HealthOutcomes : HealthResponse(outcome))
    /\ WF_vars(\E outcome \in LiveOutcomes : CreateResponse(outcome))
    /\ WF_vars(\E req \in InFlightRequests, outcome \in LiveOutcomes : MoveResponse(req, outcome))
    /\ WF_vars(\E req \in InFlightRequests, outcome \in LiveOutcomes : ResetResponse(req, outcome))

\* The mounted view with a network that answers every request.
LiveSpec == Init /\ [][NextMounted]_vars /\ Answered

---------------------------------------------------------------------------
(* Properties *)

\* The steps in which a response to one of the three game endpoints is
\* handled with the given outcome.
CreateHandled(outcome) == CreateResponse(outcome)
MoveHandled(outcome)   == \E req \in InFlightRequests : MoveResponse(req, outcome)
ResetHandled(outcome)  == \E req \in InFlightRequests : ResetResponse(req, outcome)

\* The outcome of the response handled last, if the last event was one.
LastWas(op, kind) ==
    /\ lastEvent.op = op
    /\ lastEvent.outcome.kind = kind

\* C1: for every cell index 0..8, a tap on the cell while canPlay is false
\* (loading, or winner set, or draw) or while the cell is not empty sends no
\* move request and changes no state field.
C1_GuardedTapIsNoOp ==
    [][\A index \in Cells :
         (onCellPress(index) /\ (isLoading \/ Truthy(winner) \/ Truthy(isDraw)
                                  \/ At(board, index) # JSNull))
         => UNCHANGED <<stateVars, inflight>>]_vars

\* Witness of C1: the centre cell was tapped while it was occupied, in a
\* game that was otherwise playable, and nothing was sent.
C1_Witness ==
    /\ lastEvent.op = "onCellPress"
    /\ lastEvent.index = 4
    /\ At(board, 4) = X
    /\ ~isLoading /\ ~Truthy(winner) /\ ~Truthy(isDraw)
    /\ Truthy(gameId)
    /\ inflight = EmptyBag

\* C2: a non-2xx response of create-game, submit-move or reset, handled by
\* the mounted view, leaves board, winner and isDraw as they are and sets
\* statusMessage to a string that starts with "Error:".
C2_NonOkLeavesGameAndReportsError ==
    [][\A outcome \in {NotOk(status, text) : status \in HttpStatuses, text \in BodyTexts} :
         (\/ isMounted /\ CreateHandled(outcome)
          \/ MoveHandled(outcome)
          \/ ResetHandled(outcome))
         => /\ UNCHANGED <<board, winner, isDraw>>
            /\ StartsWith(statusMessage', "Error:")]_vars

\* Witness of C2: a move was refused with a non-2xx status while the board
\* held a mark and a winner was shown, and both are still there.
C2_Witness ==
    /\ LastWas("moveResponse", "notOk")
    /\ board = CentreBoard
    /\ isDraw = Bool("true")
    /\ StartsWith(statusMessage, "Error: Move failed: 500")

\* C6: Reset while gameId is null sends no reset request and changes no
\* state field, isLoading and statusMessage included.
C6_ResetWithoutGameIsNoOp ==
    [][(onReset /\ gameId = JSNull) => UNCHANGED <<stateVars, inflight>>]_vars

\* Witness of C6: Reset was invoked after a game creation that gave no id.
C6_Witness ==
    /\ lastEvent.op = "onReset"
    /\ gameId = JSNull
    /\ initPc \in {"done", "failed"}
    /\ inflight = EmptyBag
    /\ ~isLoading

\* The steps in which the mounted view handles a 2xx response of one of the
\* three game endpoints whose body parses to the given payload.
Adopted(payload) ==
    \/ isMounted /\ CreateHandled(Ok(payload))
    \/ MoveHandled(Ok(payload))
    \/ ResetHandled(Ok(payload))

\* The payload of the 2xx response handled last.
LastPayload == lastEvent.outcome.payload

\* The payload of the 2xx response handled in the step: lastEvent' records
\* the outcome that the step handles, so a step adopts at most this payload.
StepPayload == lastEvent'.outcome.payload

\* The steps in which the mounted view handles a 2xx response of one of the
\* three game endpoints whose body parses.
AdoptionStep ==
    /\ "outcome" \in DOMAIN lastEvent'
    /\ "payload" \in DOMAIN lastEvent'.outcome
    /\ Adopted(StepPayload)

\* C3 as stated: after every successful create-game, submit-move or reset
\* response, board, nextPlayer, winner and isDraw equal the values carried
\* in the payload of the response.
C3_Original ==
    [][AdoptionStep
         => /\ board' = Field(StepPayload, "board")
            /\ nextPlayer' = Field(StepPayload, "nextPlayer")
            /\ winner' = Field(StepPayload, "winner")
            /\ isDraw' = Field(StepPayload, "isDraw")]_vars

\* A payload that carries the four game fields in the shape the view
\* adopts unchanged.
C3_Shaped(payload) ==
    /\ Field(payload, "board")[1] = "array"
    /\ Len(Field(payload, "board")[2]) = 9
    /\ Field(payload, "nextPlayer") \in {Str("X"), Str("O")}
    /\ Field(payload, "winner") # Undefined
    /\ Field(payload, "isDraw") \in {Bool("true"), Bool("false")}

\* C3, amended: after a successful create-game, submit-move or reset
\* response handled by the mounted view, if the payload carries a board
\* array of exactly 9 elements, a nextPlayer 'X' or 'O', a winner field and
\* a boolean isDraw, then board, nextPlayer, winner and isDraw equal the
\* payload's values.
C3_ShapedPayloadReplacesGame ==
    [][(AdoptionStep /\ C3_Shaped(StepPayload))
         => /\ board' = Field(StepPayload, "board")
            /\ nextPlayer' = Field(StepPayload, "nextPlayer")
            /\ winner' = Field(StepPayload, "winner")
            /\ isDraw' = Field(StepPayload, "isDraw")]_vars

\* Witness of C3: a reset answered with the empty board, no winner and no
\* draw has been adopted.
C3_Witness ==
    /\ LastWas("resetResponse", "ok")
    /\ C3_Shaped(LastPayload)
    /\ board = EmptyBoard /\ board = Field(LastPayload, "board")
    /\ nextPlayer = Field(LastPayload, "nextPlayer")
    /\ winner = JSNull /\ Field(LastPayload, "winner") = JSNull
    /\ isDraw = Bool("false") /\ Field(LastPayload, "isDraw") = Bool("false")

\* Field by field, what the view accepts (C4, C5).
C4_IdUsable(payload)         == Field(payload, "id") \notin {Undefined, JSNull, Str(""), Num("0")}
C4_BoardUsable(payload)      == Field(payload, "board")[1] = "array" /\ Len(Field(payload, "board")[2]) = 9
C4_NextPlayerUsable(payload) == Field(payload, "nextPlayer") \in {Str("X"), Str("O")}
C4_WinnerUsable(payload)     == Field(payload, "winner") \in {Str("X"), Str("O"), JSNull}
C4_IsDrawUsable(payload)     == Field(payload, "isDraw") \in {Bool("true"), Bool("false")}

\* id, board and nextPlayer: skipped when missing or invalid, applied otherwise.
C4_ValidatedFields(payload) ==
    /\ IF C4_IdUsable(payload)
       THEN gameId' = Str(Field(payload, "id")[2])
       ELSE gameId' = gameId
    /\ IF C4_BoardUsable(payload)
       THEN board' = Field(payload, "board")
       ELSE board' = board
    /\ IF C4_NextPlayerUsable(payload)
       THEN nextPlayer' = Field(payload, "nextPlayer")
       ELSE nextPlayer' = nextPlayer

\* C4 as stated: each of id, board, nextPlayer, winner and isDraw that is
\* missing or invalid in a successful response leaves its state field at the
\* previous value, and every field that validates is applied.
C4_Original ==
    [][AdoptionStep
         => /\ C4_ValidatedFields(StepPayload)
            /\ IF C4_WinnerUsable(StepPayload)
               THEN winner' = Field(StepPayload, "winner")
               ELSE winner' = winner
            /\ IF C4_IsDrawUsable(StepPayload)
               THEN isDraw' = Field(StepPayload, "isDraw")
               ELSE isDraw' = isDraw]_vars

\* C4, amended: id, board and nextPlayer are skipped individually (the state
\* field keeps its value) when missing or invalid and applied when they
\* validate; winner and isDraw are never skipped: winner becomes the
\* payload's winner, whatever it is, or null when it is missing, and isDraw
\* becomes Boolean(payload.isDraw), which is false when it is missing.
C4_FieldsSkippedIndividually ==
    [][AdoptionStep
         => /\ C4_ValidatedFields(StepPayload)
            /\ winner' = IF Field(StepPayload, "winner") \in {Undefined, JSNull}
                         THEN JSNull
                         ELSE Field(StepPayload, "winner")
            /\ isDraw' = IF Field(StepPayload, "isDraw") \in {Undefined, JSNull, Bool("false"), Num("0"), Str("")}
                         THEN Bool("false")
                         ELSE Bool("true")]_vars

\* Witness of C4: a move response without id was adopted: the game keeps
\* its id and shows the board of the response.
C4_Witness ==
    /\ LastWas("moveResponse", "ok")
    /\ Field(LastPayload, "id") = Undefined
    /\ gameId = Str("7")
    /\ Field(LastPayload, "board") = CentreBoard
    /\ board = CentreBoard

\* C5: a successful submit-move response without nextPlayer, or with a
\* nextPlayer other than 'X' and 'O', leaves nextPlayer as it was, and a
\* valid 9-element board of the same response is applied to board.
C5_MoveWithoutNextPlayer ==
    [][(/\ AdoptionStep
        /\ MoveHandled(Ok(StepPayload))
        /\ Field(StepPayload, "nextPlayer") \notin {Str("X"), Str("O")})
         => /\ nextPlayer' = nextPlayer
            /\ C4_BoardUsable(StepPayload) => board' = Field(StepPayload, "board")]_vars

\* Witness of C5: the turn was O's, and a move response without nextPlayer
\* that carries the centre board was adopted: the turn is still O's.
C5_Witness ==
    /\ LastWas("moveResponse", "ok")
    /\ Field(LastPayload, "nextPlayer") = Undefined
    /\ nextPlayer = O
    /\ Field(LastPayload, "board") = CentreBoard
    /\ board = CentreBoard

\* C7: in every reachable state board has exactly 9 entries, whatever the
\* board fields of the responses handled so far.
C7_BoardHasNineEntries ==
    /\ board[1] = "array"
    /\ Len(board[2]) = 9

\* Witness of C7: a move response with a board of 8 elements was handled,
\* and board still has 9 entries.
C7_Witness ==
    /\ LastWas("moveResponse", "ok")
    /\ Field(LastPayload, "board")[1] = "array"
    /\ Len(Field(LastPayload, "board")[2]) = 8
    /\ Len(board[2]) = 9

\* C8: once Initialize has failed (the mounted view has recorded the error
\* of the health check or of create-game), statusMessage starts with
\* "Error:", gameId is null, init never goes back to the health or create
\* request, and no submit-move or reset request is outstanding, in every
\* later state.
C8_FailedInitIsFinal ==
    [][/\ initPc = "failed" => initPc' = "failed"
       /\ initPc' = "failed" =>
            /\ StartsWith(statusMessage', "Error:")
            /\ gameId' = JSNull
            /\ inflight' = EmptyBag]_vars

\* Witness of C8: after a failed create-game a cell was tapped, and nothing
\* was sent.
C8_Witness ==
    /\ initPc = "failed"
    /\ lastEvent.op = "onCellPress"
    /\ statusMessage = "Error: Failed to create game: 500"
    /\ gameId = JSNull
    /\ inflight = EmptyBag

\* C9: the create-game request is sent only in the step that handles a 2xx
\* answer of the health check; a health check that fails or answers non-2xx
\* ends init, which never sends the create-game request afterwards.
C9_CreateOnlyAfterHealthy ==
    [][/\ (initPc' = "create" /\ initPc # "create")
            => (initPc = "health" /\ HealthResponse([kind |-> "ok"]))
       /\ \A outcome \in HealthOutcomes :
            (HealthResponse(outcome) /\ outcome.kind # "ok")
            => initPc' \in {"failed", "abandoned"}
       /\ initPc \in {"failed", "abandoned", "done"} => initPc' = initPc]_vars

\* Witness of C9: the health check answered 500 and init has ended.
C9_Witness ==
    /\ LastWas("healthResponse", "notOk")
    /\ initPc = "failed"
    /\ statusMessage = "Error: Health check failed: 500"

\* A payload outside the documented shape of GameStatePayload.
C10_Malformed(payload) ==
    \/ payload[1] # "object"
    \/ ~C4_IdUsable(payload)
    \/ ~C4_BoardUsable(payload)
    \/ \E i \in 1 .. 9 : Field(payload, "board")[2][i] \notin {Str("X"), Str("O"), JSNull}
    \/ ~C4_NextPlayerUsable(payload)
    \/ ~C4_WinnerUsable(payload)
    \/ ~C4_IsDrawUsable(payload)

\* The steps in which the mounted view handles the given outcome of the
\* health, create-game, submit-move or reset call.
C10_Handled(outcome) ==
    \/ isMounted /\ outcome \in HealthOutcomes /\ HealthResponse(outcome)
    \/ isMounted /\ CreateHandled(outcome)
    \/ MoveHandled(outcome)
    \/ ResetHandled(outcome)

\* The outcome of the call answered in the step, health check included.
StepOutcome == lastEvent'.outcome

\* The steps in which the mounted view handles the answer of a call.
C10_AnswerStep ==
    /\ "outcome" \in DOMAIN lastEvent'
    /\ C10_Handled(StepOutcome)

\* The answer is a failure: a rejected fetch, a non-2xx status, a body that
\* is not JSON.
C10_Failed(outcome) == outcome.kind \in {"rejected", "notOk", "badBody"}

\* The answer is 2xx and its body parses to a malformed payload.
C10_MalformedAnswer(outcome) ==
    /\ outcome.kind = "ok"
    /\ "payload" \in DOMAIN outcome
    /\ C10_Malformed(outcome.payload)

\* C10 as stated: a network failure, a non-2xx status and a malformed
\* payload, on any call, each end with statusMessage starting with "Error:"
\* and isLoading false.
C10_Original ==
    [][(C10_AnswerStep /\ (C10_Failed(StepOutcome) \/ C10_MalformedAnswer(StepOutcome)))
         => /\ StartsWith(statusMessage', "Error:")
            /\ isLoading' = FALSE]_vars

\* C10, amended: a network failure, a non-2xx status and a body that is not
\* JSON, on any call handled by the mounted view, each end with
\* statusMessage starting with "Error:" and isLoading false; a 2xx body that
\* parses but has missing or invalid fields is not reported: the handler
\* ends with its success message ("Game ready!", "Move accepted.",
\* "Game reset.") and isLoading false.
C10_FailuresReported ==
    [][C10_AnswerStep
         => /\ C10_Failed(StepOutcome)
                => /\ StartsWith(statusMessage', "Error:")
                   /\ isLoading' = FALSE
            /\ C10_MalformedAnswer(StepOutcome)
                => /\ statusMessage' \in {"Game ready!", "Move accepted.", "Game reset."}
                   /\ isLoading' = FALSE]_vars

\* Witness of C10: a reset was answered 2xx with a body that is not JSON.
C10_Witness ==
    /\ LastWas("resetResponse", "badBody")
    /\ statusMessage = "Error: JSON Parse error"
    /\ ~isLoading

\* The fixed symbol of a cell value (C11).
C11_Symbol(v) ==
    IF v = Str("X") THEN "U+274C"
    ELSE IF v = Str("O") THEN "U+2B55 U+FE0F"
    ELSE "U+2B1C U+FE0F"

\* C11: the rendered view is a fixed function of the state: each of the 9
\* cells shows the cross for 'X', the circle for 'O' and the square for
\* empty; the status line is "Loading..." when isLoading, else "Winner: "
\* and the winner's mark, else "Draw!", else "Turn: " and nextPlayer's mark.
\* So after an adopted create-game response with a 9-element board the grid
\* shows the symbols of those 9 values, and after a move response with X in
\* cell 4, nextPlayer 'O', no winner and no draw, cell 4 shows the cross
\* and the status is "Turn: " and the circle.
C11_ViewIsFunctionOfState ==
    /\ Len(RenderedGrid) = 9
    /\ \A index \in 0 .. 8 :
         /\ At(board, index) = Str("X") => RenderedGrid[index + 1] = "U+274C"
         /\ At(board, index) = Str("O") => RenderedGrid[index + 1] = "U+2B55 U+FE0F"
         /\ At(board, index) = JSNull   => RenderedGrid[index + 1] = "U+2B1C U+FE0F"
    /\ isLoading => RenderedStatus = "Loading..."
    /\ (~isLoading /\ winner = Str("X")) => RenderedStatus = "Winner: U+274C"
    /\ (~isLoading /\ winner = Str("O")) => RenderedStatus = "Winner: U+2B55 U+FE0F"
    /\ (~isLoading /\ winner = JSNull /\ isDraw = Bool("true")) => RenderedStatus = "Draw!"
    /\ (~isLoading /\ winner = JSNull /\ isDraw = Bool("false"))
         => RenderedStatus = "Turn: " \o C11_Symbol(nextPlayer)
    /\ (/\ LastWas("createResponse", "ok")
        /\ initPc = "done"
        /\ C4_BoardUsable(LastPayload))
         => \A index \in 0 .. 8 :
              RenderedGrid[index + 1] = C11_Symbol(At(Field(LastPayload, "board"), index))
    /\ (/\ LastWas("moveResponse", "ok")
        /\ C4_BoardUsable(LastPayload)
        /\ At(Field(LastPayload, "board"), 4) = Str("X")
        /\ Field(LastPayload, "nextPlayer") = Str("O")
        /\ Field(LastPayload, "winner") \in {Undefined, JSNull}
        /\ Field(LastPayload, "isDraw") \in {Undefined, Bool("false")})
         => /\ RenderedGrid[5] = "U+274C"
            /\ RenderedStatus = "Turn: U+2B55 U+FE0F"

\* Witness of C11: the move response of the scenario has been adopted: X in
\* cell 4, O to play.
C11_Witness ==
    /\ LastWas("moveResponse", "ok")
    /\ Field(LastPayload, "board") = CentreBoard
    /\ Field(LastPayload, "nextPlayer") = O
    /\ Field(LastPayload, "winner") = JSNull
    /\ Field(LastPayload, "isDraw") = Bool("false")
    /\ RenderedGrid[5] = "U+274C"
    /\ RenderedGrid[1] = "U+2B1C U+FE0F"
    /\ RenderedStatus = "Turn: U+2B55 U+FE0F"

\* A request (health, create, move or reset) has been issued and has not
\* completed.
RequestOutstanding ==
    \/ initPc \in {"health", "create"}
    \/ inflight # EmptyBag

C13_SendsRequest == BagCardinality(inflight') = BagCardinality(inflight) + 1

\* A tap on the cell that passes every guard of onCellPress but the test of
\* isLoading: a game exists, it has no winner and no draw, the cell is empty.
C13_TapAllowedButForLoading(index) ==
    /\ gameId # JSNull
    /\ winner = JSNull
    /\ isDraw = Bool("false")
    /\ At(board, index) = JSNull

C14_FailureStep ==
    /\ "outcome" \in DOMAIN lastEvent'
    /\ lastEvent'.outcome.kind \in {"rejected", "notOk", "badBody"}
    /\ \/ CreateHandled(lastEvent'.outcome)
       \/ MoveHandled(lastEvent'.outcome)
       \/ ResetHandled(lastEvent'.outcome)

\* C14: board, nextPlayer, winner and isDraw change only in a step that
\* adopts a successful response; the tap that sends a move or reset request
\* and the handling of a failed request change no state field other than
\* isLoading and statusMessage: there is no optimistic board update.
C14_OnlyAdoptionChangesGame ==
    [][/\ (<<board, nextPlayer, winner, isDraw>>' # <<board, nextPlayer, winner, isDraw>>)
            => AdoptionStep
       /\ \A index \in Cells :
            onCellPress(index) => UNCHANGED <<gameId, board, nextPlayer, winner, isDraw>>
       /\ onReset => UNCHANGED <<gameId, board, nextPlayer, winner, isDraw>>
       /\ C14_FailureStep => UNCHANGED <<gameId, board, nextPlayer, winner, isDraw>>]_vars

\* Witness of C14: the tap on cell 4 has sent its move request and cell 4 is
\* still empty.
C14_Witness ==
    /\ lastEvent.op = "onCellPress"
    /\ lastEvent.index = 4
    /\ BagIn(MoveRequest(JSString(gameId), 4), inflight)
    /\ statusMessage = "Submitting move..."
    /\ isLoading
    /\ At(board, 4) = JSNull

\* C15 (first part): while the view stays mounted and every request that
\* was sent is answered, a view that is loading is eventually not loading,
\* whether the answer is a success or a failure; isLoading goes from true to
\* false only in a step that handles an answer (there is no timeout).
C15_LoadingEndsWithTheAnswer ==
    /\ isLoading ~> ~isLoading
    /\ [][(isLoading /\ ~isLoading') => "outcome" \in DOMAIN lastEvent']_vars

C16_StateConformsToDataModel ==
    /\ IsArray(board)
    /\ Length(board) = BoardSize
    /\ \A index \in Cells : At(board, index) \in {JSNull, X, O}
    /\ nextPlayer \in {X, O}
    /\ winner \in {X, O, JSNull}

\* C17: gameId is null until the first successful answer whose payload has
\* a truthy id: it leaves null only in a step that adopts a payload, and
\* takes that payload's id.  Once it is not null it never becomes null
\* again, whatever fails and whatever id a later payload carries.
C17_GameIdSetOnceNeverCleared ==
    [][/\ (gameId = JSNull /\ gameId' # JSNull)
            => /\ AdoptionStep
               /\ Truthy(Field(StepPayload, "id"))
               /\ gameId' = Str(JSString(Field(StepPayload, "id")))
       /\ (gameId # JSNull) => (gameId' # JSNull)]_vars

\* Witness of C17: a game id is held, and the last answer was a reset
\* answer whose payload carries no id.
C17_Witness ==
    /\ gameId = Str("7")
    /\ lastEvent.op = "resetResponse"
    /\ lastEvent.outcome.kind = "ok"
    /\ lastEvent.outcome.payload # JSNull
    /\ Field(lastEvent.outcome.payload, "id") = Undefined

\* C18: when the view was unmounted while init was awaiting the health or
\* the create-game answer, the step that handles that answer, a success or
\* a failure, changes no state field: no payload is adopted, statusMessage
\* is not set and isLoading is not cleared.
C18_UnmountedInitChangesNothing ==
    [][(/\ ~isMounted
        /\ \/ \E outcome \in HealthOutcomes : HealthResponse(outcome)
           \/ "outcome" \in DOMAIN lastEvent' /\ CreateHandled(lastEvent'.outcome))
         => UNCHANGED stateVars]_vars

====
